---------------------------- MODULE Spec2Model ----------------------------
(***************************************************************************)
(* The image-analysis cells of opencv_workshop.ipynb (region masking,      *)
(* blur, thresholding, contour detection, area filter, count, contour      *)
(* drawing, areas) as a state machine over the notebook's kernel           *)
(* namespace.  The OpenCV calls the cells make are operators that compute  *)
(* what the library computes on 8-bit single-channel arrays.  An image is  *)
(* a sequence of rows, each a sequence of intensities in 0..255; img[y][x] *)
(* with y, x counted from 1.  Contour points are <<x, y>> pairs counted    *)
(* from 0, as OpenCV returns them.  Areas are carried as twice their value *)
(* so that the half-integers of the polygon area formula stay integers.    *)
(***************************************************************************)
EXTENDS Integers, Sequences, FiniteSets, TLC

VARIABLES b, b1, blurred, thresh, adaptive_thresh, img_contours, contours,
          filtered_contours, areas, out, args, bound, buf, last, pc, err, writer,
          cur, inv

vars == <<b, b1, blurred, thresh, adaptive_thresh, img_contours, contours,
          filtered_contours, areas, out, args, bound, buf, last, pc, err, writer,
          cur, inv>>

(***************************************************************************)
(* Bounds of the model and the inputs the cells are run with.              *)
(***************************************************************************)
\* columns of the exhaustively enumerated two-level arrays (three rows)
MaskCols == 3
\* columns of the exhaustively enumerated multi-level arrays (two rows)
GrayCols == 2

\* the values of the notebook's own calls
NotebookThresh == 30
NotebookMaxval == 255
NotebookOffset == 2

\* intensities of the multi-level arrays: below, at and just above the cutoff
Levels == {0, NotebookThresh, NotebookThresh + 1}
\* foreground intensity of the two-level arrays
Bright == 200

\* the arguments the cells are run with
KernelSizes == {-1, 0, 1, 2, 3}
ThreshValues == {-1, 0, NotebookThresh, 100, 255, 256}
BlockSizes == {1, 3, 4}
Offsets == {-2, 0, NotebookOffset}
MinAreas == {0, 1, 4, 20}

(***************************************************************************)
(* Arrays.                                                                 *)
(***************************************************************************)
Height(img) == Len(img)
Width(img) == Len(img[1])
Rows(img) == 1..Height(img)
Cols(img) == 1..Width(img)

\* a pixel of the array, 0 outside it (the one-pixel zero frame findContours adds)
At(img, y, x) == IF y \in Rows(img) /\ x \in Cols(img) THEN img[y][x] ELSE 0

Const(h, w, v) == [y \in 1..h |-> [x \in 1..w |-> v]]

AllZero(img) == \A y \in Rows(img) : \A x \in Cols(img) : img[y][x] = 0

\* h x w array, value v inside the given rectangles (rows y1..y2, columns x1..x2)
Boxes(h, w, v, rects) ==
    [y \in 1..h |-> [x \in 1..w |->
        IF \E r \in rects : y \in r[1]..r[2] /\ x \in r[3]..r[4] THEN v ELSE 0]]

\* 10x10, filled 4x4 square at (3,3)-(6,6) counted from 0
Square10 == Boxes(10, 10, Bright, {<<4, 7, 4, 7>>})
\* 20x20, two disjoint 3x3 squares
TwoSquares20 == Boxes(20, 20, Bright, {<<3, 5, 3, 5>>, <<11, 13, 14, 16>>})

\* 5x5 arrays: a one-pixel frame (closed, open at the top, or absent) around
\* nothing, an isolated centre pixel, or a centre pixel tied to the frame
Ring5(frame, inner) ==
    [y \in 1..5 |-> [x \in 1..5 |->
        IF y \in {1, 5} \/ x \in {1, 5}
        THEN (IF frame = "closed" \/ (frame = "open" /\ <<y, x>> # <<1, 3>>)
              THEN Bright ELSE 0)
        ELSE IF <<y, x>> = <<3, 3>> THEN (IF inner # "empty" THEN Bright ELSE 0)
        ELSE IF <<y, x>> = <<2, 3>> THEN (IF inner = "tied" THEN Bright ELSE 0)
        ELSE 0]]

\* 9x9: a pixel, a 3x3 square, a 2x2 square, a pixel and a 3x3 square
Mixed9 == Boxes(9, 9, Bright, {<<1, 1, 1, 1>>, <<1, 3, 4, 6>>, <<5, 6, 1, 2>>,
                               <<8, 8, 4, 4>>, <<7, 9, 7, 9>>})

Rings == {Ring5(f, i) : f \in {"closed", "open", "none"}, i \in {"empty", "centre", "tied"}}

Scenes == {Square10, TwoSquares20, Mixed9, Const(1, 1, 0), Const(1, 1, Bright), Const(1, 4, Bright),
           Const(3, 3, 0), Const(5, 5, 0)}

\* every two-row array over Levels
Grays == [1..2 -> [1..GrayCols -> Levels]]

\* every three-row array over {0, Bright}
Masks == [1..3 -> [1..MaskCols -> {0, Bright}]]

\* the arrays the whole notebook is run on
Images == Grays \cup Rings \cup Scenes

\* the arrays the contour cells are run on
ContourImages == Masks \cup Rings \cup Scenes

(***************************************************************************)
(* cv2.GaussianBlur(src, (k, k), 0, 0, cv2.BORDER_DEFAULT)                 *)
(***************************************************************************)
\* borderInterpolate, BORDER_REFLECT_101, on a coordinate counted from 0
RECURSIVE Reflect101(_, _)
Reflect101(p, len) ==
    IF len = 1 THEN 0
    ELSE IF p < 0 THEN Reflect101(-p, len)
    ELSE IF p >= len THEN Reflect101(2 * len - 2 - p, len)
    ELSE p

\* the fixed Gaussian kernels used when sigma = 0, in units of 1/256
GaussKernel(k) == IF k = 1 THEN <<256>> ELSE <<64, 128, 64>>

\* sum of the elements of a sequence of integers
RECURSIVE SeqSum(_)
SeqSum(s) == IF s = <<>> THEN 0 ELSE Head(s) + SeqSum(Tail(s))

\* the separable fixed-point filter: exact weighted sum in units of 1/65536,
\* rounded half up to 8 bits
SepFilter(src, kw, kh) ==
    LET KX == GaussKernel(kw)
        KY == GaussKernel(kh)
        px(y, x) == src[Reflect101(y - 1, Height(src)) + 1][Reflect101(x - 1, Width(src)) + 1]
        row(y, x) == SeqSum([i \in 1..kw |-> KX[i] * px(y, x + i - 1 - (kw \div 2))])
        acc(y, x) == SeqSum([j \in 1..kh |-> KY[j] * row(y + j - 1 - (kh \div 2), x)])
    IN [y \in Rows(src) |-> [x \in Cols(src) |-> (acc(y, x) + 32768) \div 65536]]

\* a blur that rounds an even kernel size up to the next odd one instead of raising
GaussianBlur_roundup(src, k) ==
    LET k1 == IF k % 2 = 0 THEN k + 1 ELSE k
    IN IF k1 <= 0 THEN [ok |-> FALSE, dst |-> <<>>]
       ELSE [ok |-> TRUE,
             dst |-> SepFilter(src, IF Width(src) = 1 THEN 1 ELSE k1,
                                    IF Height(src) = 1 THEN 1 ELSE k1)]

\* [ok, dst]: ok is FALSE when the call raises cv2.error
GaussianBlur(src, k) ==
    LET kw == IF Width(src) = 1 THEN 1 ELSE k
        kh == IF Height(src) = 1 THEN 1 ELSE k
    IN IF kw = 1 /\ kh = 1 THEN [ok |-> TRUE, dst |-> src]
       ELSE IF ~(kw > 0 /\ kw % 2 = 1 /\ kh > 0 /\ kh % 2 = 1)
       THEN [ok |-> FALSE, dst |-> <<>>]
       ELSE [ok |-> TRUE, dst |-> SepFilter(src, kw, kh)]

(***************************************************************************)
(* cv2.threshold(src, t, maxval, cv2.THRESH_BINARY) on an 8-bit array      *)
(***************************************************************************)
\* THRESH_BINARY with the comparison made non-strict
threshold_ge(src, t, maxval) ==
    [y \in Rows(src) |-> [x \in Cols(src) |-> IF src[y][x] >= t THEN maxval ELSE 0]]

\* THRESH_TOZERO in place of THRESH_BINARY: pixels above the cutoff keep their value
threshold_tozero(src, t, maxval) ==
    [y \in Rows(src) |-> [x \in Cols(src) |-> IF src[y][x] > t THEN src[y][x] ELSE 0]]

threshold(src, t, maxval) ==
    IF t < 0 \/ t >= 255
    THEN Const(Height(src), Width(src), IF t >= 255 THEN 0 ELSE maxval)
    ELSE [y \in Rows(src) |-> [x \in Cols(src) |->
            IF src[y][x] > t THEN maxval ELSE 0]]

(***************************************************************************)
(* cv2.adaptiveThreshold(src, maxval, ADAPTIVE_THRESH_MEAN_C,              *)
(*                       THRESH_BINARY, blockSize, C)                      *)
(***************************************************************************)
Clamp(p, lo, hi) == IF p < lo THEN lo ELSE IF p > hi THEN hi ELSE p

\* the neighbourhood mean truncated instead of rounded
BoxMean_trunc(src, bs, y, x) ==
    LET r == bs \div 2
        px(yy, xx) == src[Clamp(yy, 1, Height(src))][Clamp(xx, 1, Width(src))]
        col(yy) == SeqSum([i \in 1..bs |-> px(yy, x - r - 1 + i)])
        total == SeqSum([j \in 1..bs |-> col(y - r - 1 + j)])
    IN total \div (bs * bs)

\* boxFilter, normalized, BORDER_REPLICATE: the neighbourhood mean rounded to
\* the nearest integer
BoxMean(src, bs, y, x) ==
    LET r == bs \div 2
        px(yy, xx) == src[Clamp(yy, 1, Height(src))][Clamp(xx, 1, Width(src))]
        col(yy) == SeqSum([i \in 1..bs |-> px(yy, x - r - 1 + i)])
        total == SeqSum([j \in 1..bs |-> col(y - r - 1 + j)])
        n == bs * bs
    IN (2 * total + n) \div (2 * n)

\* the adaptive comparison made non-strict
adaptiveThreshold_ge(src, maxval, blockSize, C) ==
    IF ~(blockSize % 2 = 1 /\ blockSize > 1)
    THEN [ok |-> FALSE, dst |-> <<>>]
    ELSE [ok |-> TRUE,
          dst |-> [y \in Rows(src) |-> [x \in Cols(src) |->
                    IF src[y][x] - BoxMean(src, blockSize, y, x) >= -C
                    THEN maxval ELSE 0]]]

\* an adaptive threshold that accepts every block size
adaptiveThreshold_unchecked(src, maxval, blockSize, C) ==
    [ok |-> TRUE,
     dst |-> [y \in Rows(src) |-> [x \in Cols(src) |->
               IF src[y][x] - BoxMean(src, blockSize, y, x) > -C
               THEN maxval ELSE 0]]]

adaptiveThreshold(src, maxval, blockSize, C) ==
    IF ~(blockSize % 2 = 1 /\ blockSize > 1)
    THEN [ok |-> FALSE, dst |-> <<>>]
    ELSE [ok |-> TRUE,
          dst |-> [y \in Rows(src) |-> [x \in Cols(src) |->
                    IF src[y][x] - BoxMean(src, blockSize, y, x) > -C
                    THEN maxval ELSE 0]]]

(***************************************************************************)
(* cv2.findContours(image, cv2.RETR_EXTERNAL, cv2.CHAIN_APPROX_SIMPLE)     *)
(* Border following over a working copy of the image in which non-zero     *)
(* pixels are 1, traced border pixels are relabelled 2, and traced border  *)
(* pixels whose right-hand neighbour is background are relabelled -126.    *)
(***************************************************************************)
\* the eight chain-code directions, 0 = right, counter-clockwise on screen
CodeDX == <<1, 1, 0, -1, -1, -1, 0, 1>>
CodeDY == <<0, -1, -1, -1, 0, 1, 1, 1>>
StepY(y, s) == y + CodeDY[s + 1]
StepX(x, s) == x + CodeDX[s + 1]

\* retrieval mode: outermost borders only
RETR_EXTERNAL == 0

\* label of a traced border pixel, and of one on the right-hand bound
LabelIn == 2
LabelRight == -126

Binarize(img) == [y \in Rows(img) |-> [x \in Cols(img) |-> IF img[y][x] # 0 THEN 1 ELSE 0]]

\* first non-zero neighbour of the start pixel, searched clockwise from the left
RECURSIVE FirstDir(_, _, _, _)
FirstDir(L, y, x, s) ==
    LET s1 == (s + 7) % 8
    IN IF At(L, StepY(y, s1), StepX(x, s1)) = 0 /\ s1 # 4
       THEN FirstDir(L, y, x, s1) ELSE s1

\* next non-zero neighbour of the current pixel, searched counter-clockwise
RECURSIVE NextDir(_, _, _, _)
NextDir(L, y, x, s) ==
    IF s < 15
    THEN LET s1 == s + 1
         IN IF At(L, StepY(y, s1 % 8), StepX(x, s1 % 8)) # 0 THEN s1
            ELSE NextDir(L, y, x, s1)
    ELSE s

\* the border-following loop: (y0,x0) start pixel, (y1,x1) its first neighbour,
\* (y3,x3) current pixel, s the direction it was entered from, prev_s the last
\* direction written; a point is kept only where the direction changes
RECURSIVE FollowBorder(_, _, _, _, _, _, _, _, _, _)
FollowBorder(L, y0, x0, y1, x1, y3, x3, s, prev_s, pts) ==
    LET s_end == s
        sn == NextDir(L, y3, x3, s) % 8
        y4 == StepY(y3, sn)
        x4 == StepX(x3, sn)
        L1 == IF sn >= 1 /\ sn - 1 < s_end THEN [L EXCEPT ![y3][x3] = LabelRight]
              ELSE IF L[y3][x3] = 1 THEN [L EXCEPT ![y3][x3] = LabelIn]
              ELSE L
        pts1 == IF sn # prev_s THEN Append(pts, <<x3 - 1, y3 - 1>>) ELSE pts
    IN IF y4 = y0 /\ x4 = x0 /\ y3 = y1 /\ x3 = x1
       THEN [img |-> L1, pts |-> pts1]
       ELSE FollowBorder(L1, y0, x0, y1, x1, y4, x4, (sn + 4) % 8, sn, pts1)

\* trace the outer border that starts at (y, x)
FetchContour(L, y, x) ==
    LET s == FirstDir(L, y, x, 4)
    IN IF s = 4
       THEN [img |-> [L EXCEPT ![y][x] = LabelRight], pts |-> << <<x - 1, y - 1>> >>]
       ELSE FollowBorder(L, y, x, StepY(y, s), StepX(x, s), y, x, s, (s + 4) % 8, <<>>)

\* raster scan of one row: prev is the previous pixel's label, lnbdx the column
\* of the last labelled border pixel met on this row (0: none); equal
\* neighbours are skipped; an outer border starts at a 0 -> 1 step unless the
\* mode is RETR_EXTERNAL and the last border met is still open to the right
\* (the pixel lies inside it)
RECURSIVE ScanRow(_, _, _, _, _, _, _)
ScanRow(L, y, x, prev, lnbdx, found, mode) ==
    IF x > Width(L) THEN [img |-> L, found |-> found]
    ELSE LET p == L[y][x]
         IN IF p = prev THEN ScanRow(L, y, x + 1, prev, lnbdx, found, mode)
            ELSE IF prev = 0 /\ p = 1 /\ ~(mode = RETR_EXTERNAL /\ At(L, y, lnbdx) > 0)
            THEN LET r == FetchContour(L, y, x)
                 IN ScanRow(r.img, y, x + 1, r.img[y][x], x, <<r.pts>> \o found, mode)
            ELSE ScanRow(L, y, x + 1, p, IF p \notin {0, 1} THEN x ELSE lnbdx, found, mode)

RECURSIVE ScanRows(_, _, _, _)
ScanRows(L, y, found, mode) ==
    IF y > Height(L) THEN found
    ELSE LET r == ScanRow(L, y, 1, 0, 0, found, mode)
         IN ScanRows(r.img, y + 1, r.found, mode)

\* every outer border, those nested inside another blob included
findContours_list(image) == ScanRows(Binarize(image), 1, <<>>, RETR_EXTERNAL + 1)

\* the contours, last found first (each new contour is linked in at the head)
findContours(image) == ScanRows(Binarize(image), 1, <<>>, RETR_EXTERNAL)

(***************************************************************************)
(* cv2.contourArea(c), doubled: |sum of cross products of consecutive      *)
(* vertices|, the closing edge included                                    *)
(***************************************************************************)
Abs(n) == IF n < 0 THEN -n ELSE n

\* the polygon area without the edge that closes the contour
contourArea2_open(c) ==
    Abs(SeqSum([i \in 1..(Len(c) - 1) |-> c[i][1] * c[i + 1][2] - c[i][2] * c[i + 1][1]]))

\* the signed polygon area, cv2.contourArea(c, True)
contourArea2_signed(c) ==
    SeqSum([i \in 1..Len(c) |->
        (IF i = 1 THEN c[Len(c)] ELSE c[i - 1])[1] * c[i][2]
        - (IF i = 1 THEN c[Len(c)] ELSE c[i - 1])[2] * c[i][1]])

contourArea2(c) ==
    LET n == Len(c)
        prev(i) == IF i = 1 THEN c[n] ELSE c[i - 1]
    IN IF n = 0 THEN 0
       ELSE Abs(SeqSum([i \in 1..n |-> prev(i)[1] * c[i][2] - prev(i)[2] * c[i][1]]))

\* the filter with a non-strict comparison
FilterByArea_ge(cs, m) == SelectSeq(cs, LAMBDA c : contourArea2(c) >= 2 * m)

\* the filter keeping the small contours instead of the large ones
FilterByArea_lt(cs, m) == SelectSeq(cs, LAMBDA c : contourArea2(c) < 2 * m)

\* the filter on the signed area, cv2.contourArea(c, True)
FilterByArea_oriented(cs, m) ==
    SelectSeq(cs, LAMBDA c :
        SeqSum([i \in 1..Len(c) |->
            (IF i = 1 THEN c[Len(c)] ELSE c[i - 1])[1] * c[i][2]
            - (IF i = 1 THEN c[Len(c)] ELSE c[i - 1])[2] * c[i][1]]) > 2 * m)

\* [c for c in contours if cv2.contourArea(c) > m]
FilterByArea(cs, m) == SelectSeq(cs, LAMBDA c : contourArea2(c) > 2 * m)

(***************************************************************************)
(* numpy arrays: copies, views and writes in place.  Every array name      *)
(* refers to a buffer; buf gives the buffer of each name, 0 for a name     *)
(* that is not assigned.  A write in place through one name changes what   *)
(* every name on the same buffer holds.                                    *)
(***************************************************************************)
ArrayNames == {"b", "b1", "blurred", "thresh", "adaptive_thresh", "img_contours"}

\* the first buffer that no other name refers to
FreshBuffer(bf, name) ==
    CHOOSE i \in 1..Cardinality(ArrayNames) :
        /\ \A n \in ArrayNames \ {name} : bf[n] # i
        /\ \A j \in 1..(i - 1) : \E n \in ArrayNames \ {name} : bf[n] = j

\* name = <a call that returns a new array>
NewArray(bf, name) == [bf EXCEPT ![name] = FreshBuffer(bf, name)]

\* name = src, without a copy: the two names share one buffer
ndarray_alias(bf, name, src) == [bf EXCEPT ![name] = bf[src]]

\* name = src.copy()
ndarray_copy(bf, name, src) == NewArray(bf, name)

\* what name holds after w has been written in place through target
Through(bf, name, target, old, w) == IF bf[name] = bf[target] THEN w ELSE old

\* src.min()
ArrayMin(src) ==
    CHOOSE v \in {src[y][x] : y \in Rows(src), x \in Cols(src)} :
        \A y \in Rows(src) : \A x \in Cols(src) : v <= src[y][x]

\* src[lo:hi, lo:hi] = v with 0 <= lo <= hi: rows and columns lo..hi-1 counted
\* from 0, cut to the array
SetRegion(src, lo, hi, v) ==
    [y \in Rows(src) |-> [x \in Cols(src) |->
        IF y \in (lo + 1)..hi /\ x \in (lo + 1)..hi THEN v ELSE src[y][x]]]

(***************************************************************************)
(* cv2.drawContours(image, contours, -1, (255), 2): every contour drawn as *)
(* a closed polyline of thickness 2, which colours each pixel at most one  *)
(* pixel away from a segment of the polyline.                              *)
(***************************************************************************)
\* the point (px, py) is at distance <= 1 from the segment p..q
NearSegment(px, py, p, q) ==
    LET dx == q[1] - p[1]
        dy == q[2] - p[2]
        len2 == dx * dx + dy * dy
        t == (px - p[1]) * dx + (py - p[2]) * dy
        d2p == (px - p[1]) * (px - p[1]) + (py - p[2]) * (py - p[2])
        d2q == (px - q[1]) * (px - q[1]) + (py - q[2]) * (py - q[2])
    IN IF len2 = 0 \/ t <= 0 THEN d2p <= 1
       ELSE IF t >= len2 THEN d2q <= 1
       ELSE d2p * len2 - t * t <= len2

drawContours(image, cs) ==
    [y \in Rows(image) |-> [x \in Cols(image) |->
        IF \E i \in 1..Len(cs) : \E j \in 1..Len(cs[i]) :
               NearSegment(x - 1, y - 1, cs[i][j], cs[i][(j % Len(cs[i])) + 1])
        THEN 255 ELSE image[y][x]]]

(***************************************************************************)
(* The notebook.  b is the blue channel of the image read by the earlier   *)
(* cells; the cells below run top to bottom, each with the arguments the   *)
(* person at the keyboard gives it, and a cell that raises stops the run.  *)
(* A name that is not yet assigned is absent from bound and holds <<>>;    *)
(* pc is the cell that runs next, last the cell that ran last, err what it *)
(* raised.  writer is the cell that assigned thresh last, with the kernel  *)
(* size and threshold it was given.                                        *)
(*                                                                         *)
(* A pass over the cells for one image is an invocation of the counting    *)
(* pipeline.  inv holds, for each invocation, the image and arguments it   *)
(* is run with, the cell it has reached, and the count, blobs and areas    *)
(* its own cells displayed; cur is the invocation whose cells are being    *)
(* run.  All invocations run in the one kernel namespace.                  *)
(***************************************************************************)
\* the slice of the region-masking cell as written
SliceFrom == 400
SliceTo == 600

\* most invocations of the pipeline in one kernel
Invocations == 3

NoArgs == [ksize |-> 0, thresh |-> 0, src |-> "b", blockSize |-> 0, C |-> 0, min_area |-> 0,
           lo |-> SliceFrom, hi |-> SliceTo]

NoWriter == [cell |-> "none", ksize |-> 0, thresh |-> 0]

\* an invocation that has not run: image, arguments, position, whether its
\* cells have run in document order with no other cell run between them, and
\* what its cells displayed
Invocation(img, k, t, m, at) ==
    [img |-> img, ksize |-> k, thresh |-> t, min_area |-> m, pc |-> at, straight |-> TRUE,
     returned |-> FALSE, count |-> 0, blobs |-> <<>>, areas |-> <<>>]

NoInvocations == [i \in 1..Invocations |-> Invocation(<<>>, 0, 0, 0, "absent")]

\* the kernel after the cells up to the region-masking cell have run on image
Loaded(image) ==
    /\ b = image
    /\ b1 = SetRegion(image, SliceFrom, SliceTo, ArrayMin(image))
    /\ blurred = <<>>
    /\ thresh = <<>>
    /\ adaptive_thresh = <<>>
    /\ img_contours = <<>>
    /\ contours = <<>>
    /\ filtered_contours = <<>>
    /\ areas = <<>>
    /\ out = 0
    /\ args = NoArgs
    /\ bound = {"b", "b1"}
    /\ buf = [n \in ArrayNames |-> IF n = "b" THEN 1 ELSE IF n = "b1" THEN 2 ELSE 0]
    /\ last = "mask"
    /\ err = "none"
    /\ writer = NoWriter
    /\ cur = 1
    /\ inv = NoInvocations

Init ==
    /\ \E image \in Images : Loaded(image)
    /\ pc = "blur"

Raise(e) == /\ err' = e
            /\ pc' = "halted"

\* the image read only when b is not yet assigned
CellLoad_once(image) ==
    /\ pc = "load"
    /\ last' = "load"
    /\ b' = IF "b" \in bound THEN b ELSE image
    /\ buf' = IF "b" \in bound THEN buf ELSE NewArray(buf, "b")
    /\ bound' = bound \cup {"b"}
    /\ pc' = "mask"
    /\ err' = "none"
    /\ UNCHANGED <<b1, blurred, thresh, adaptive_thresh, img_contours, contours,
                   filtered_contours, areas, out, args, writer, cur, inv>>

\* img = cv2.imread(...); r, g, b = cv2.split(img)
CellLoad(image) ==
    /\ pc = "load"
    /\ last' = "load"
    /\ b' = image
    /\ buf' = NewArray(buf, "b")
    /\ bound' = bound \cup {"b"}
    /\ pc' = "mask"
    /\ err' = "none"
    /\ UNCHANGED <<b1, blurred, thresh, adaptive_thresh, img_contours, contours,
                   filtered_contours, areas, out, args, writer, cur, inv>>

\* b1 = b.copy()
\* b1[lo:hi, lo:hi] = b.min()
CellMask(lo, hi) ==
    /\ pc = "mask"
    /\ last' = "mask"
    /\ args' = [args EXCEPT !.lo = lo, !.hi = hi]
    /\ LET bf == ndarray_copy(buf, "b1", "b")
           w == SetRegion(b, lo, hi, ArrayMin(b))
       IN /\ buf' = bf
          /\ b1' = w
          /\ b' = Through(bf, "b", "b1", b, w)
          /\ blurred' = Through(bf, "blurred", "b1", blurred, w)
          /\ thresh' = Through(bf, "thresh", "b1", thresh, w)
          /\ adaptive_thresh' = Through(bf, "adaptive_thresh", "b1", adaptive_thresh, w)
          /\ img_contours' = Through(bf, "img_contours", "b1", img_contours, w)
    /\ bound' = bound \cup {"b1"}
    /\ pc' = "blur"
    /\ err' = "none"
    /\ UNCHANGED <<contours, filtered_contours, areas, out, writer, cur, inv>>

\* blurred = cv2.GaussianBlur(b, (k, k), 0, 0, cv2.BORDER_DEFAULT)
CellBlur(k) ==
    /\ pc = "blur"
    /\ last' = "blur"
    /\ args' = [args EXCEPT !.ksize = k]
    /\ LET r == GaussianBlur(b, k)
       IN IF r.ok
          THEN /\ blurred' = r.dst
               /\ buf' = NewArray(buf, "blurred")
               /\ bound' = bound \cup {"blurred"}
               /\ pc' = "thresh"
               /\ err' = "none"
          ELSE /\ Raise("cv2.error")
               /\ UNCHANGED <<blurred, buf, bound>>
    /\ UNCHANGED <<b, b1, thresh, adaptive_thresh, img_contours, contours, filtered_contours,
                   areas, out, writer, cur, inv>>

\* ret, thresh = cv2.threshold(b, t, 255, cv2.THRESH_BINARY)
CellThreshold(t) ==
    /\ pc = "thresh"
    /\ last' = "thresh"
    /\ args' = [args EXCEPT !.thresh = t, !.src = "b"]
    /\ thresh' = threshold(b, t, NotebookMaxval)
    /\ buf' = NewArray(buf, "thresh")
    /\ writer' = [cell |-> "thresh", ksize |-> 0, thresh |-> t]
    /\ bound' = bound \cup {"thresh"}
    /\ pc' = "blur_thresh"
    /\ err' = "none"
    /\ UNCHANGED <<b, b1, blurred, adaptive_thresh, img_contours, contours, filtered_contours,
                   areas, out, cur, inv>>

\* blurred = cv2.GaussianBlur(b, (k, k), ...)
\* ret, thresh = cv2.threshold(blurred, t, 255, cv2.THRESH_BINARY)
CellBlurThreshold(k, t) ==
    /\ pc = "blur_thresh"
    /\ last' = "blur_thresh"
    /\ LET r == GaussianBlur(b, k)
       IN IF r.ok
          THEN /\ blurred' = r.dst
               /\ thresh' = threshold(r.dst, t, NotebookMaxval)
               /\ buf' = NewArray(NewArray(buf, "blurred"), "thresh")
               /\ args' = [args EXCEPT !.ksize = k, !.thresh = t, !.src = "blurred"]
               /\ writer' = [cell |-> "blur_thresh", ksize |-> k, thresh |-> t]
               /\ bound' = bound \cup {"blurred", "thresh"}
               /\ pc' = "adaptive"
               /\ err' = "none"
          ELSE /\ Raise("cv2.error")
               /\ args' = [args EXCEPT !.ksize = k]
               /\ UNCHANGED <<blurred, thresh, buf, writer, bound>>
    /\ UNCHANGED <<b, b1, adaptive_thresh, img_contours, contours, filtered_contours, areas,
                   out, cur, inv>>

\* adaptive_thresh = cv2.adaptiveThreshold(blurred, 255, ADAPTIVE_THRESH_MEAN_C,
\*                                         THRESH_BINARY, blockSize, C)
CellAdaptive(blockSize, C) ==
    /\ pc = "adaptive"
    /\ last' = "adaptive"
    /\ args' = [args EXCEPT !.blockSize = blockSize, !.C = C]
    /\ IF "blurred" \notin bound
       THEN /\ Raise("NameError")
            /\ UNCHANGED <<adaptive_thresh, buf, bound>>
       ELSE LET r == adaptiveThreshold(blurred, NotebookMaxval, blockSize, C)
            IN IF r.ok
               THEN /\ adaptive_thresh' = r.dst
                    /\ buf' = NewArray(buf, "adaptive_thresh")
                    /\ bound' = bound \cup {"adaptive_thresh"}
                    /\ pc' = "find"
                    /\ err' = "none"
               ELSE /\ Raise("cv2.error")
                    /\ UNCHANGED <<adaptive_thresh, buf, bound>>
    /\ UNCHANGED <<b, b1, blurred, thresh, img_contours, contours, filtered_contours, areas,
                   out, writer, cur, inv>>

\* contour extraction reading the adaptive mask
CellFindContours_adaptive ==
    /\ pc = "find"
    /\ last' = "find"
    /\ IF "adaptive_thresh" \notin bound
       THEN /\ Raise("NameError")
            /\ UNCHANGED <<contours, bound>>
       ELSE /\ contours' = findContours(adaptive_thresh)
            /\ bound' = bound \cup {"contours"}
            /\ pc' = "len"
            /\ err' = "none"
    /\ UNCHANGED <<b, b1, blurred, thresh, adaptive_thresh, img_contours, filtered_contours,
                   areas, out, args, buf, writer, cur, inv>>

\* contours, _ = cv2.findContours(thresh, cv2.RETR_EXTERNAL, cv2.CHAIN_APPROX_SIMPLE)
CellFindContours ==
    /\ pc = "find"
    /\ last' = "find"
    /\ IF "thresh" \notin bound
       THEN /\ Raise("NameError")
            /\ UNCHANGED <<contours, bound>>
       ELSE /\ contours' = findContours(thresh)
            /\ bound' = bound \cup {"contours"}
            /\ pc' = "len"
            /\ err' = "none"
    /\ UNCHANGED <<b, b1, blurred, thresh, adaptive_thresh, img_contours, filtered_contours,
                   areas, out, args, buf, writer, cur, inv>>

\* len(contours)
CellLen ==
    /\ pc = "len"
    /\ last' = "len"
    /\ IF "contours" \notin bound
       THEN /\ Raise("NameError")
            /\ UNCHANGED out
       ELSE /\ out' = Len(contours)
            /\ pc' = "filter"
            /\ err' = "none"
    /\ UNCHANGED <<b, b1, blurred, thresh, adaptive_thresh, img_contours, contours,
                   filtered_contours, areas, args, bound, buf, writer, cur, inv>>

\* the filter cell adding to the list left by the run before instead of
\* assigning a new one
CellFilter_extend(m) ==
    /\ pc = "filter"
    /\ last' = "filter"
    /\ args' = [args EXCEPT !.min_area = m]
    /\ IF "contours" \notin bound
       THEN /\ Raise("NameError")
            /\ UNCHANGED <<filtered_contours, out, bound, inv>>
       ELSE /\ filtered_contours' = filtered_contours \o FilterByArea(contours, m)
            /\ out' = Len(filtered_contours')
            /\ inv' = [inv EXCEPT ![cur].count = out', ![cur].blobs = filtered_contours']
            /\ bound' = bound \cup {"filtered_contours"}
            /\ pc' = "draw"
            /\ err' = "none"
    /\ UNCHANGED <<b, b1, blurred, thresh, adaptive_thresh, img_contours, contours, areas,
                   buf, writer, cur>>

\* filtered_contours = [c for c in contours if cv2.contourArea(c) > m]
\* len(filtered_contours)
CellFilter(m) ==
    /\ pc = "filter"
    /\ last' = "filter"
    /\ args' = [args EXCEPT !.min_area = m]
    /\ IF "contours" \notin bound
       THEN /\ Raise("NameError")
            /\ UNCHANGED <<filtered_contours, out, bound, inv>>
       ELSE /\ filtered_contours' = FilterByArea(contours, m)
            /\ out' = Len(filtered_contours')
            /\ inv' = [inv EXCEPT ![cur].count = out', ![cur].blobs = filtered_contours']
            /\ bound' = bound \cup {"filtered_contours"}
            /\ pc' = "draw"
            /\ err' = "none"
    /\ UNCHANGED <<b, b1, blurred, thresh, adaptive_thresh, img_contours, contours, areas,
                   buf, writer, cur>>

\* img_contours = b.copy()
\* cv2.drawContours(img_contours, contours, -1, (255), 2)
CellDraw ==
    /\ pc = "draw"
    /\ last' = "draw"
    /\ LET bf == ndarray_copy(buf, "img_contours", "b")
           w == IF "contours" \in bound THEN drawContours(b, contours) ELSE b
       IN /\ buf' = bf
          /\ img_contours' = w
          /\ b' = Through(bf, "b", "img_contours", b, w)
          /\ b1' = Through(bf, "b1", "img_contours", b1, w)
          /\ blurred' = Through(bf, "blurred", "img_contours", blurred, w)
          /\ thresh' = Through(bf, "thresh", "img_contours", thresh, w)
          /\ adaptive_thresh' = Through(bf, "adaptive_thresh", "img_contours", adaptive_thresh, w)
    /\ bound' = bound \cup {"img_contours"}
    /\ IF "contours" \notin bound
       THEN Raise("NameError")
       ELSE /\ pc' = "areas"
            /\ err' = "none"
    /\ UNCHANGED <<contours, filtered_contours, areas, out, args, writer, cur, inv>>

\* areas = [cv2.contourArea(c) for c in filtered_contours]
CellAreas ==
    /\ pc = "areas"
    /\ last' = "areas"
    /\ IF "filtered_contours" \notin bound
       THEN /\ Raise("NameError")
            /\ UNCHANGED <<areas, bound, inv>>
       ELSE /\ areas' = [i \in 1..Len(filtered_contours) |-> contourArea2(filtered_contours[i])]
            /\ inv' = [inv EXCEPT ![cur].areas = areas', ![cur].returned = TRUE]
            /\ bound' = bound \cup {"areas"}
            /\ pc' = "done"
            /\ err' = "none"
    /\ UNCHANGED <<b, b1, blurred, thresh, adaptive_thresh, img_contours, contours,
                   filtered_contours, out, args, buf, writer, cur>>

\* the person at the keyboard selects another cell to run next
SelectCell(c) ==
    /\ pc # c
    /\ pc' = c
    /\ inv' = [inv EXCEPT ![cur].straight = FALSE]
    /\ UNCHANGED <<b, b1, blurred, thresh, adaptive_thresh, img_contours, contours,
                   filtered_contours, areas, out, args, bound, buf, last, err, writer, cur>>

\* the cells of invocation i are run next; the invocation left is no longer
\* straight when it is left between its first and its last cell
Switch(i) ==
    /\ i # cur
    /\ inv[i].pc # "absent"
    /\ cur' = i
    /\ pc' = inv[i].pc
    /\ inv' = [inv EXCEPT ![cur].pc = pc,
                          ![cur].straight = @ /\ pc \in {"load", "done", "halted"}]
    /\ UNCHANGED <<b, b1, blurred, thresh, adaptive_thresh, img_contours, contours,
                   filtered_contours, areas, out, args, bound, buf, last, err, writer>>

\* the same, between invocations only
Handover(i) ==
    /\ pc \in {"load", "done", "halted"}
    /\ Switch(i)

Next ==
    \/ \E k \in KernelSizes : CellBlur(k)
    \/ \E t \in ThreshValues : CellThreshold(t)
    \/ \E k \in KernelSizes, t \in ThreshValues : CellBlurThreshold(k, t)
    \/ \E bs \in BlockSizes, C \in Offsets : CellAdaptive(bs, C)
    \/ CellFindContours
    \/ CellLen
    \/ \E m \in MinAreas : CellFilter(m)
    \/ CellDraw
    \/ CellAreas

Spec == Init /\ [][Next]_vars

(***************************************************************************)
(* The contour cells on their own: the notebook as it stands after the     *)
(* cells before them have run on b with kernel size 1, threshold 100,      *)
(* block size 3 and offset 2, for every array of ContourImages.            *)
(***************************************************************************)
InitContours ==
    /\ b \in ContourImages
    /\ b1 = SetRegion(b, SliceFrom, SliceTo, ArrayMin(b))
    /\ blurred = GaussianBlur(b, 1).dst
    /\ thresh = threshold(blurred, 100, NotebookMaxval)
    /\ adaptive_thresh = adaptiveThreshold(blurred, NotebookMaxval, 3, NotebookOffset).dst
    /\ img_contours = <<>>
    /\ contours = <<>>
    /\ filtered_contours = <<>>
    /\ areas = <<>>
    /\ out = 0
    /\ args = [ksize |-> 1, thresh |-> 100, src |-> "blurred", blockSize |-> 3,
               C |-> NotebookOffset, min_area |-> 0, lo |-> SliceFrom, hi |-> SliceTo]
    /\ bound = {"b", "b1", "blurred", "thresh", "adaptive_thresh"}
    /\ buf = [n \in ArrayNames |->
                 CASE n = "b" -> 1 [] n = "b1" -> 2 [] n = "blurred" -> 3 [] n = "thresh" -> 4
                   [] n = "adaptive_thresh" -> 5 [] OTHER -> 0]
    /\ last = "adaptive"
    /\ pc = "find"
    /\ err = "none"
    /\ writer = [cell |-> "blur_thresh", ksize |-> 1, thresh |-> 100]
    /\ cur = 1
    /\ inv = NoInvocations

NextContours ==
    \/ CellFindContours
    \/ CellLen
    \/ \E m \in MinAreas : CellFilter(m)
    \/ CellDraw
    \/ CellAreas

SpecContours == InitContours /\ [][NextContours]_vars

(***************************************************************************)
(* The cells from the region-masking cell on, the slice of that cell       *)
(* edited before it is run again.                                          *)
(***************************************************************************)
\* the slices the region-masking cell is run with: lo, hi of [lo:hi, lo:hi]
MaskSlices == {<<0, 1>>, <<1, 3>>, <<SliceFrom, SliceTo>>}

FrameImages == Rings \cup {Square10, Mixed9, Const(1, 4, Bright)}

InitFrame ==
    /\ \E image \in FrameImages : Loaded(image)
    /\ pc = "mask"

NextFrame ==
    \/ \E s \in MaskSlices : CellMask(s[1], s[2])
    \/ \E k \in KernelSizes : CellBlur(k)
    \/ \E t \in ThreshValues : CellThreshold(t)
    \/ \E k \in KernelSizes, t \in ThreshValues : CellBlurThreshold(k, t)
    \/ \E bs \in BlockSizes, C \in Offsets : CellAdaptive(bs, C)
    \/ CellFindContours
    \/ CellLen
    \/ \E m \in MinAreas : CellFilter(m)
    \/ CellDraw
    \/ CellAreas

SpecFrame == InitFrame /\ [][NextFrame]_vars

(***************************************************************************)
(* The cells from the first blur cell to the contour count, run in any     *)
(* order: after any cell the person at the keyboard may select any other.  *)
(***************************************************************************)
\* 3x5, two pixels one column apart: two blobs before the blur, one after it
TwoDots == Boxes(3, 5, Bright, {<<2, 2, 2, 2>>, <<2, 2, 4, 4>>})

OrderImages == {TwoDots, Mixed9, Ring5("open", "centre")}
OrderCells == {"blur", "thresh", "blur_thresh", "adaptive", "find", "len"}
OrderKernels == {2, 3}
OrderThresh == {NotebookThresh, 100}

InitAnyOrder ==
    /\ \E image \in OrderImages : Loaded(image)
    /\ pc = "blur"

NextAnyOrder ==
    \/ \E c \in OrderCells : SelectCell(c)
    \/ \E k \in OrderKernels : CellBlur(k)
    \/ \E t \in OrderThresh : CellThreshold(t)
    \/ \E k \in OrderKernels, t \in OrderThresh : CellBlurThreshold(k, t)
    \/ CellAdaptive(3, NotebookOffset)
    \/ CellFindContours
    \/ CellLen

SpecAnyOrder == InitAnyOrder /\ [][NextAnyOrder]_vars

(***************************************************************************)
(* Several invocations in one kernel.  Each invocation is a pass over the  *)
(* cells, from the cell that reads the image to the cell that computes the *)
(* areas, with its own image and arguments and the block size and offset   *)
(* the notebook is written with.  In SpecSequential an invocation starts   *)
(* when the one before it has ended; in SpecInterleaved the cells of two   *)
(* invocations are run in any interleaving.                                *)
(***************************************************************************)
\* the block size of the adaptive cell as written
NotebookBlockSize == 11

\* invocations whose cells are interleaved
Concurrent == 2

\* image, kernel size, threshold, minimum area of the invocations
InvInputs ==
    {<<Ring5("closed", "empty"), 1, 100, 0>>, <<Ring5("closed", "empty"), 1, 100, 20>>,
     <<TwoDots, 3, NotebookThresh, 0>>}

Starts == {Invocation(in[1], in[2], in[3], in[4], "load") : in \in InvInputs}

\* a kernel in which no cell has run
NewKernel ==
    /\ b = <<>>
    /\ b1 = <<>>
    /\ blurred = <<>>
    /\ thresh = <<>>
    /\ adaptive_thresh = <<>>
    /\ img_contours = <<>>
    /\ contours = <<>>
    /\ filtered_contours = <<>>
    /\ areas = <<>>
    /\ out = 0
    /\ args = NoArgs
    /\ bound = {}
    /\ buf = [n \in ArrayNames |-> 0]
    /\ last = "none"
    /\ pc = "load"
    /\ err = "none"
    /\ writer = NoWriter
    /\ cur = 1

\* the next cell of the invocation being run
InvocationStep ==
    \/ CellLoad(inv[cur].img)
    \/ CellMask(SliceFrom, SliceTo)
    \/ CellBlur(inv[cur].ksize)
    \/ CellThreshold(inv[cur].thresh)
    \/ CellBlurThreshold(inv[cur].ksize, inv[cur].thresh)
    \/ CellAdaptive(NotebookBlockSize, NotebookOffset)
    \/ CellFindContours
    \/ CellLen
    \/ CellFilter(inv[cur].min_area)
    \/ CellDraw
    \/ CellAreas

InitSequential ==
    /\ NewKernel
    /\ inv \in [1..Invocations -> Starts]

NextSequential ==
    \/ \E i \in 1..Invocations : Handover(i)
    \/ InvocationStep

SpecSequential == InitSequential /\ [][NextSequential]_vars

InitInterleaved ==
    /\ NewKernel
    /\ \E f \in [1..Concurrent -> Starts] :
           inv = [i \in 1..Invocations |-> IF i <= Concurrent THEN f[i] ELSE NoInvocations[i]]

NextInterleaved ==
    \/ \E i \in 1..Invocations : Switch(i)
    \/ InvocationStep

SpecInterleaved == InitInterleaved /\ [][NextInterleaved]_vars

(***************************************************************************)
(* Properties.                                                             *)
(***************************************************************************)
\* the array the current thresh was computed from
ThreshSource == IF args.src = "b" THEN b ELSE blurred

\* m has the shape of src and holds only 0 and 255
IsMaskOf(m, src) ==
    /\ Height(m) = Height(src)
    /\ \A y \in Rows(m) : Len(m[y]) = Width(src)
    /\ \A y \in Rows(m) : \A x \in Cols(m) : m[y][x] \in {0, 255}

\* C1: with a global threshold T in 0..255, a mask pixel is 255 exactly when the
\* source intensity is strictly greater than T, and 0 when it is T or less.
C1_ThresholdBoundary ==
    ("thresh" \in bound /\ args.thresh \in 0..255) =>
        \A y \in Rows(ThreshSource) : \A x \in Cols(ThreshSource) :
            /\ thresh[y][x] = 255 <=> ThreshSource[y][x] > args.thresh
            /\ ThreshSource[y][x] <= args.thresh => thresh[y][x] = 0

\* the raw channel thresholded at the notebook's 30: a pixel equal to 30 is
\* background, a pixel at 31 is foreground
C1_Witness ==
    /\ last = "thresh"
    /\ args.thresh = NotebookThresh
    /\ \E y \in Rows(b) : \E x \in Cols(b) : b[y][x] = NotebookThresh /\ thresh[y][x] = 0
    /\ \E y \in Rows(b) : \E x \in Cols(b) : b[y][x] = NotebookThresh + 1 /\ thresh[y][x] = 255

\* C9: a mask, global or adaptive, has the height and width of its source and
\* holds only 0 and 255.
C9_BinaryMask ==
    /\ "thresh" \in bound => IsMaskOf(thresh, ThreshSource) /\ IsMaskOf(thresh, b)
    /\ "adaptive_thresh" \in bound =>
           IsMaskOf(adaptive_thresh, blurred) /\ IsMaskOf(adaptive_thresh, b)

\* both masks of a 10x10 array, each holding both values
C9_Witness ==
    /\ b = Square10
    /\ "thresh" \in bound /\ "adaptive_thresh" \in bound
    /\ \E y \in Rows(b) : \E x \in Cols(b) : thresh[y][x] = 255 /\ adaptive_thresh[y][x] = 255
    /\ \E y \in Rows(b) : \E x \in Cols(b) : thresh[y][x] = 0 /\ adaptive_thresh[y][x] = 0

\* a blur cell ran last, and what it was given
BlurRan == last \in {"blur", "blur_thresh"}
\* a global threshold was applied by the cell that ran last
ThresholdRan == last = "thresh" \/ (last = "blur_thresh" /\ err = "none")
BadKernelParity == args.ksize <= 0 \/ args.ksize % 2 = 0
KernelExceedsArray == args.ksize > Height(b) \/ args.ksize > Width(b)
BadBlockSize == args.blockSize <= 1 \/ args.blockSize % 2 = 0

\* more than one pixel: on a single pixel the blur is a copy whatever the kernel
SeveralPixels == Height(b) > 1 \/ Width(b) > 1

\* C10 as stated (on arrays of more than one pixel): every malformed tunable
\* (kernel even, non-positive or larger than the array; global threshold
\* outside 0..255; block size even or <= 1) makes the cell fail.
C10_Original ==
    /\ (BlurRan /\ SeveralPixels /\ (BadKernelParity \/ KernelExceedsArray)) => err = "cv2.error"
    /\ (ThresholdRan /\ args.thresh \notin 0..255) => err = "cv2.error"
    /\ (last = "adaptive" /\ BadBlockSize) => err = "cv2.error"

\* C10 amended: an even or non-positive kernel size (on an array of more than
\* one pixel) and an even or <= 1 block size raise, the run stops and no result
\* is produced; an odd positive kernel larger than the array is accepted, and
\* so is a global threshold outside 0..255, which gives an all-foreground mask
\* below 0 and an all-background mask at 255 or above.
C10_InvalidParameter ==
    /\ (BlurRan /\ BadKernelParity /\ SeveralPixels) => err = "cv2.error"
    /\ (last = "blur" /\ err = "cv2.error") => "blurred" \notin bound
    /\ (BlurRan /\ ~BadKernelParity) => err = "none"
    /\ (last = "adaptive" /\ BadBlockSize) => err = "cv2.error" /\ "adaptive_thresh" \notin bound
    /\ ThresholdRan => err = "none"
    /\ (ThresholdRan /\ args.thresh < 0) =>
           \A y \in Rows(thresh) : \A x \in Cols(thresh) : thresh[y][x] = 255
    /\ (ThresholdRan /\ args.thresh >= 255) => AllZero(thresh)
    /\ err = "cv2.error" =>
           pc = "halted" /\ bound \cap {"contours", "filtered_contours", "areas"} = {}

\* the first blur cell given kernel size 2 on an array of more than one pixel
C10_Witness ==
    /\ last = "blur"
    /\ args.ksize = 2
    /\ Height(b) > 1
    /\ err = "cv2.error"

\* the contours cv2.findContours would return for the adaptive mask
AdaptiveContours == findContours(adaptive_thresh)

FullForeground(m) == \A y \in Rows(m) : \A x \in Cols(m) : m[y][x] = 255

\* the blur and the global threshold of the run were given valid arguments
ValidBlur == args.ksize > 0 /\ args.ksize % 2 = 1
ValidGlobal == ValidBlur /\ args.thresh \in 0..255

ScenarioRun(img) ==
    /\ b = img
    /\ pc = "done"
    /\ args.ksize = 1 /\ args.thresh = 100 /\ args.min_area = 0

\* C4 as stated: the 4x4 square gives count 1 and one area of about 16, the
\* square's pixel count (here: within a quarter of it, 12 to 20).
C4_Original ==
    ScenarioRun(Square10) =>
        /\ out = 1
        /\ Len(areas) = 1
        /\ Abs(areas[1] - 2 * 16) <= 2 * 4

\* C4 amended: the 4x4 square gives count 1 and one area of 9, the area of the
\* polygon through the centres of its corner pixels (3 x 3), computed from the
\* contour's four vertices; likewise each 3x3 square of the 20x20 scenario has
\* area 4.  The stored area is not the blob's pixel count.
C4_PolygonArea ==
    /\ ScenarioRun(Square10) =>
           /\ out = 1
           /\ filtered_contours = << << <<3, 3>>, <<3, 6>>, <<6, 6>>, <<6, 3>> >> >>
           /\ areas = <<2 * 9>>
    /\ ScenarioRun(TwoSquares20) =>
           /\ out = 2
           /\ areas = <<2 * 4, 2 * 4>>
    /\ "areas" \in bound =>
           /\ Len(areas) = out
           /\ \A i \in 1..Len(areas) : areas[i] > 2 * args.min_area

C4_Witness ==
    /\ ScenarioRun(Square10)
    /\ areas = <<18>>

(***************************************************************************)
(* Regions of a mask, computed by flood fill, independently of the border  *)
(* following above.  Pixels are <<y, x>> pairs.                            *)
(***************************************************************************)
Foreground(m) == {p \in Rows(m) \X Cols(m) : m[p[1]][p[2]] # 0}

Nbr4(p) == {<<p[1] - 1, p[2]>>, <<p[1] + 1, p[2]>>, <<p[1], p[2] - 1>>, <<p[1], p[2] + 1>>}
Nbr8(p) == {<<p[1] + dy, p[2] + dx>> : dy \in {-1, 0, 1}, dx \in {-1, 0, 1}} \ {p}

\* the 8-connected closure of seen within the set cells, grown from frontier
RECURSIVE Grow8(_, _, _)
Grow8(seen, frontier, cells) ==
    LET new == {q \in UNION {Nbr8(p) : p \in frontier} : q \in cells /\ q \notin seen}
    IN IF new = {} THEN seen ELSE Grow8(seen \cup new, new, cells)

RECURSIVE Grow4(_, _, _)
Grow4(seen, frontier, cells) ==
    LET new == {q \in UNION {Nbr4(p) : p \in frontier} : q \in cells /\ q \notin seen}
    IN IF new = {} THEN seen ELSE Grow4(seen \cup new, new, cells)

\* the maximal 8-connected foreground regions
Regions(m) == {Grow8({p}, {p}, Foreground(m)) : p \in Foreground(m)}

\* the background 4-connected to the outside of the array (frame included)
OuterBackground(m) ==
    LET framed == (0..Height(m) + 1) \X (0..Width(m) + 1)
        frame == framed \ (Rows(m) \X Cols(m))
    IN Grow4(frame, frame, framed \ Foreground(m))

\* the regions that border the outer background: those not enclosed by another
OuterRegions(m) ==
    LET outside == OuterBackground(m)
    IN {R \in Regions(m) : \E p \in R : Nbr4(p) \cap outside # {}}

\* the pixel a contour point stands on
PixelOf(pt) == <<pt[2] + 1, pt[1] + 1>>

\* C3 as stated: one contour per maximal 8-connected foreground region.
C3_Original ==
    "contours" \in bound => Len(contours) = Cardinality(Regions(thresh))

\* C3 amended: one contour per maximal 8-connected foreground region that is
\* not enclosed by another region; every vertex of a contour lies on its
\* region, distinct contours lie on distinct regions, a hole adds no contour,
\* and a region lying inside a hole of another region is not reported.  The
\* two 3x3 squares on the 20x20 background at threshold 100 give 2.
C3_OuterRegions ==
    "contours" \in bound =>
        /\ Len(contours) = Cardinality(OuterRegions(thresh))
        /\ \A i \in 1..Len(contours) :
               \E R \in OuterRegions(thresh) :
                   \A j \in 1..Len(contours[i]) : PixelOf(contours[i][j]) \in R
        /\ \A i, k \in 1..Len(contours) :
               i # k => \A R \in Regions(thresh) :
                   ~(PixelOf(contours[i][1]) \in R /\ PixelOf(contours[k][1]) \in R)
        /\ b = TwoSquares20 => Len(contours) = 2

\* the closed 5x5 frame around an isolated centre pixel: two regions, one contour
C3_Witness ==
    /\ b = Ring5("closed", "centre")
    /\ "contours" \in bound
    /\ Cardinality(Regions(thresh)) = 2
    /\ Len(contours) = 1

(***************************************************************************)
(* The area filter.                                                        *)
(***************************************************************************)
\* positions of cs whose contour is larger than m
Large(cs, m) == {i \in 1..Len(cs) : contourArea2(cs[i]) > 2 * m}

\* f holds exactly the contours of cs larger than m, in the order of cs
IsFilterOf(f, cs, m) ==
    /\ Len(f) = Cardinality(Large(cs, m))
    /\ \A i \in Large(cs, m) : f[Cardinality({j \in Large(cs, m) : j <= i})] = cs[i]

\* C2: the filter returns exactly the contours whose area is strictly greater
\* than min_blob_area, in input order; a contour of area equal to it is
\* dropped; count is the number returned; a single blob of area below 20
\* gives count 0 at min_blob_area 20.
C2_Filter ==
    "filtered_contours" \in bound =>
        /\ IsFilterOf(filtered_contours, contours, args.min_area)
        /\ out = Len(filtered_contours)
        /\ \A i \in 1..Len(contours) :
               contourArea2(contours[i]) = 2 * args.min_area =>
                   \A j \in 1..Len(filtered_contours) : filtered_contours[j] # contours[i]
        /\ (args.min_area = 20 /\ Len(contours) = 1 /\ contourArea2(contours[1]) < 2 * 20)
               => out = 0

\* five contours filtered at 1: the 2x2 square (area 1) and the two pixels are
\* dropped, the two 3x3 squares stay in order
C2_Witness ==
    /\ b = Mixed9
    /\ "filtered_contours" \in bound
    /\ args.min_area = 1
    /\ Len(contours) = 5
    /\ filtered_contours = <<contours[2], contours[4]>>
    /\ contourArea2(contours[3]) = 2

\* C5 as stated: with min_blob_area 0 every extracted contour is retained.
C5_Original ==
    ("filtered_contours" \in bound /\ args.min_area = 0) =>
        filtered_contours = contours /\ out = Len(contours)

\* positions of cs whose contour has area 0
Flat(cs) == {i \in 1..Len(cs) : contourArea2(cs[i]) = 0}

\* C5 amended: with min_blob_area 0 the contours of area 0 (single pixels,
\* one-pixel-wide lines) are dropped and every other contour is retained:
\* count is the number of extracted contours minus those of area 0.
C5_ZeroMinimum ==
    ("filtered_contours" \in bound /\ args.min_area = 0) =>
        /\ out = Len(contours) - Cardinality(Flat(contours))
        /\ Len(filtered_contours) = out
        /\ \A i \in 1..Len(contours) :
               (i \in Flat(contours)) <=>
                   (\A j \in 1..Len(filtered_contours) : filtered_contours[j] # contours[i])
        /\ Flat(contours) = {} => filtered_contours = contours

\* a single bright pixel: one contour found, none retained at minimum 0
C5_Witness ==
    /\ b = Const(1, 1, Bright)
    /\ "filtered_contours" \in bound
    /\ args.min_area = 0
    /\ Len(contours) = 1
    /\ out = 0

\* the contours of cs with at least three vertices
Proper(cs) == SelectSeq(cs, LAMBDA c : Len(c) >= 3)

\* C6: a contour with fewer than 3 vertices has area 0, is left out for every
\* min_blob_area >= 0 without an error, and the other contours are filtered
\* and counted as if it were not there.
C6_Degenerate ==
    "filtered_contours" \in bound =>
        /\ err = "none"
        /\ \A i \in 1..Len(contours) :
               Len(contours[i]) < 3 =>
                   /\ contourArea2(contours[i]) = 0
                   /\ \A j \in 1..Len(filtered_contours) : filtered_contours[j] # contours[i]
        /\ IsFilterOf(filtered_contours, Proper(contours), args.min_area)
        /\ out = Cardinality(Large(Proper(contours), args.min_area))

\* two one-point contours among five: they are dropped, the rest filtered at 0
C6_Witness ==
    /\ b = Mixed9
    /\ "filtered_contours" \in bound
    /\ args.min_area = 0
    /\ Len(contours[1]) = 1 /\ Len(contours[5]) = 1
    /\ filtered_contours = <<contours[2], contours[3], contours[4]>>

\* the set of elements of a sequence
Range(f) == {f[i] : i \in 1..Len(f)}

\* C7: for thresholds a <= b on the same contours, the blobs retained at b are
\* among those retained at a and the count at b is no larger.
C7_Monotone ==
    "filtered_contours" \in bound =>
        \A a \in MinAreas :
            /\ a <= args.min_area =>
                   /\ out <= Len(FilterByArea(contours, a))
                   /\ Range(filtered_contours) \subseteq Range(FilterByArea(contours, a))
            /\ a >= args.min_area =>
                   /\ Len(FilterByArea(contours, a)) <= out
                   /\ Range(FilterByArea(contours, a)) \subseteq Range(filtered_contours)

\* counts 3, 2, 0 at minimum areas 0, 1, 4 on the same five contours
C7_Witness ==
    /\ b = Mixed9
    /\ "filtered_contours" \in bound
    /\ args.min_area = 1
    /\ out = 2
    /\ Len(FilterByArea(contours, 0)) = 3
    /\ Len(FilterByArea(contours, 4)) = 0

(***************************************************************************)
(* Outcomes of a run of the cells.                                         *)
(***************************************************************************)
\* the names the four stages bind
StageNames == {"blurred", "thresh", "adaptive_thresh", "contours", "filtered_contours", "areas"}
\* the names that make up the result: contours, blobs and their areas
ResultNames == {"contours", "filtered_contours", "areas"}

\* C11 as stated: a failure is raised before smoothing or any later stage has
\* run, so a failed run has bound no stage output, and a stage never runs on an
\* invalid parameter of its own (threshold outside 0..255, bad block size),
\* which was rejected before smoothing started.
C11_Original ==
    /\ err # "none" => bound \cap StageNames = {}
    /\ (ThresholdRan /\ ValidBlur) => args.thresh \in 0..255
    /\ (last = "adaptive" /\ BadBlockSize) => "blurred" \notin bound

\* C11 amended: a run ends either with every result bound or with cv2.error
\* raised by the library call that was handed the bad argument, at the moment
\* that call is made: a bad kernel size by a blur call, a bad block size by the
\* adaptive-threshold call, which runs after smoothing and global thresholding,
\* whose outputs stay bound.  The failing cell binds nothing, no contour, blob
\* or area exists after a failure, and a global threshold outside 0..255 is
\* never rejected: the run goes on to a complete result.
C11_FailureAtCall ==
    /\ pc = "halted" <=> err = "cv2.error"
    /\ err \in {"none", "cv2.error"}
    /\ err = "cv2.error" =>
           \/ BlurRan /\ BadKernelParity /\ SeveralPixels
           \/ last = "adaptive" /\ BadBlockSize
    /\ (last = "adaptive" /\ BadBlockSize) => err = "cv2.error"
    /\ err = "cv2.error" => bound \cap ResultNames = {}
    /\ (err = "cv2.error" /\ last = "blur") => bound \cap StageNames = {}
    /\ (err = "cv2.error" /\ last = "blur_thresh") =>
           /\ bound \cap StageNames = {"blurred", "thresh"}
           /\ args.src = "b"
           /\ thresh = threshold(b, args.thresh, NotebookMaxval)
    /\ (err = "cv2.error" /\ last = "adaptive") =>
           /\ bound \cap StageNames = {"blurred", "thresh"}
           /\ blurred = GaussianBlur(b, args.ksize).dst
           /\ thresh = threshold(blurred, args.thresh, NotebookMaxval)
    /\ last \in {"thresh", "find", "len", "filter", "draw", "areas"} => err = "none"
    /\ pc = "done" =>
           /\ StageNames \subseteq bound
           /\ err = "none"
           /\ out = Len(filtered_contours)
           /\ Len(areas) = out

\* the adaptive-threshold call rejects block size 4 after the blur and the
\* global threshold of the same run have produced their outputs
C11_Witness ==
    /\ err = "cv2.error"
    /\ last = "adaptive"
    /\ args.blockSize = 4
    /\ {"blurred", "thresh"} \subseteq bound
    /\ \E y \in Rows(thresh) : \E x \in Cols(thresh) : thresh[y][x] = 255

(***************************************************************************)
(* The adaptive cutoff.                                                    *)
(***************************************************************************)
\* the sum of the blockSize x blockSize neighbourhood centred on (y, x), the
\* array extended beyond its edges by repeating the edge pixel
BlockTotal(src, blockSize, y, x) ==
    LET r == blockSize \div 2
        row(i) == Clamp(y - r + ((i - 1) \div blockSize), 1, Height(src))
        col(i) == Clamp(x - r + ((i - 1) % blockSize), 1, Width(src))
    IN SeqSum([i \in 1..(blockSize * blockSize) |-> src[row(i)][col(i)]])

\* C14 as stated: a pixel of the adaptive mask is 255 exactly when the source
\* pixel is greater than the mean of its neighbourhood minus C, and 0 otherwise.
\* With n = blockSize^2 pixels in the block: n * src > total - n * C.
C14_Original ==
    ("adaptive_thresh" \in bound /\ err = "none") =>
        \A y \in Rows(blurred) : \A x \in Cols(blurred) :
            LET n == args.blockSize * args.blockSize
                total == BlockTotal(blurred, args.blockSize, y, x)
            IN adaptive_thresh[y][x] =
                   IF n * blurred[y][x] > total - n * args.C THEN 255 ELSE 0

\* C14 amended: the neighbourhood mean is first rounded to the nearest integer;
\* a pixel is 255 exactly when the source pixel is greater than that rounded
\* mean minus C, that is when src + C exceeds the exact mean by more than one
\* half, and 0 otherwise.  The mean is taken per pixel over the block centred
\* on it, with the array extended by repeating its edge pixels.
C14_AdaptiveCutoff ==
    ("adaptive_thresh" \in bound /\ err = "none") =>
        \A y \in Rows(blurred) : \A x \in Cols(blurred) :
            LET n == args.blockSize * args.blockSize
                total == BlockTotal(blurred, args.blockSize, y, x)
            IN adaptive_thresh[y][x] =
                   IF 2 * n * (blurred[y][x] + args.C) > 2 * total + n THEN 255 ELSE 0

\* an adaptive mask in which two pixels of the same intensity fall on different
\* sides of their own cutoffs, and a pixel above its exact neighbourhood mean
\* that is nevertheless background
C14_Witness ==
    /\ last = "adaptive" /\ err = "none"
    /\ args.C = 0
    /\ \E y1, y2 \in Rows(blurred) : \E x1, x2 \in Cols(blurred) :
           /\ blurred[y1][x1] = blurred[y2][x2]
           /\ adaptive_thresh[y1][x1] = 255
           /\ adaptive_thresh[y2][x2] = 0
    /\ \E y \in Rows(blurred) : \E x \in Cols(blurred) :
           /\ 9 * blurred[y][x] > BlockTotal(blurred, 3, y, x)
           /\ adaptive_thresh[y][x] = 0

(***************************************************************************)
(* The comment of the blur-then-threshold cell.                            *)
(***************************************************************************)
\* the cutoff named by the cell's comment
CommentCutoff == 127

\* C16: after the blur-then-threshold cell has run with the threshold it is
\* written with, every pixel of the blurred image above 127 is 255 in the mask
\* and every other pixel is 0.
C16_CommentCutoff ==
    (last = "blur_thresh" /\ err = "none" /\ args.thresh = NotebookThresh) =>
        \A y \in Rows(blurred) : \A x \in Cols(blurred) :
            thresh[y][x] = IF blurred[y][x] > CommentCutoff THEN 255 ELSE 0

(***************************************************************************)
(* Writes in place.                                                        *)
(***************************************************************************)
\* C15: no cell changes the pixels of b, and no cell changes an array or list
\* it only consumes: blurred changes only when a blur cell assigns it, thresh
\* only when a thresholding cell assigns it, and likewise adaptive_thresh, b1,
\* contours and filtered_contours.  The region masking and the contour drawing
\* write into copies of b: b1 is b with the region set to b's minimum,
\* img_contours is b with the contours drawn on it.
C15_NoInPlaceEdit ==
    [][ /\ b' = b
        /\ ("b1" \in bound /\ last' # "mask") => b1' = b1
        /\ ("blurred" \in bound /\ last' \notin {"blur", "blur_thresh"}) => blurred' = blurred
        /\ ("thresh" \in bound /\ last' \notin {"thresh", "blur_thresh"}) => thresh' = thresh
        /\ ("adaptive_thresh" \in bound /\ last' # "adaptive") =>
               adaptive_thresh' = adaptive_thresh
        /\ ("contours" \in bound /\ last' # "find") => contours' = contours
        /\ ("filtered_contours" \in bound /\ last' # "filter") =>
               filtered_contours' = filtered_contours
        /\ last' = "mask" => b1' = SetRegion(b, args'.lo, args'.hi, ArrayMin(b))
        /\ (last' = "draw" /\ err' = "none") => img_contours' = drawContours(b, contours)
      ]_vars

\* the whole run on the 9x9 array: the masked copy and the drawn copy both
\* differ from b, which still holds the pixels it was loaded with
C15_Witness ==
    /\ pc = "done"
    /\ b = Mixed9
    /\ args.lo = 0
    /\ b1 # b
    /\ b1[1][1] = 0
    /\ img_contours # b
    /\ \E y \in Rows(b) : \E x \in Cols(b) : b[y][x] = 0 /\ img_contours[y][x] = 255

(***************************************************************************)
(* The names shared between cells.                                         *)
(***************************************************************************)
\* the mask that the cell which assigned thresh last computed
MaskWritten ==
    IF writer.cell = "thresh"
    THEN threshold(b, writer.thresh, NotebookMaxval)
    ELSE threshold(GaussianBlur(b, writer.ksize).dst, writer.thresh, NotebookMaxval)

\* C17: contour extraction reads the name thresh.  When the cells have run in
\* document order it holds the global-threshold mask of the blurred image,
\* assigned by the blur-then-threshold cell.  In any other order it holds the
\* mask assigned by whichever of the two cells that assign thresh ran last,
\* the raw-channel cell or the blur-then-threshold cell; the adaptive cell
\* assigns adaptive_thresh, which contour extraction never reads.
C17_SharedNames ==
    /\ (last = "find" /\ err = "none") =>
           /\ writer.cell \in {"thresh", "blur_thresh"}
           /\ contours = findContours(MaskWritten)
    /\ (last = "find" /\ writer.cell = "none") => err = "NameError"
    /\ (last = "find" /\ inv[cur].straight) =>
           /\ err = "none"
           /\ writer.cell = "blur_thresh"
           /\ blurred = GaussianBlur(b, writer.ksize).dst
           /\ contours = findContours(threshold(blurred, writer.thresh, NotebookMaxval))
    /\ (last = "len" /\ err = "none") => out = Len(contours)

\* the raw-channel cell run again after the blur-then-threshold cell and the
\* adaptive cell: the count is 2, where document order with the same
\* arguments gives 1 and the adaptive mask gives another contour list
C17_Witness ==
    /\ b = TwoDots
    /\ last = "len" /\ err = "none"
    /\ ~inv[cur].straight
    /\ writer = [cell |-> "thresh", ksize |-> 0, thresh |-> NotebookThresh]
    /\ "adaptive_thresh" \in bound
    /\ blurred = GaussianBlur(b, 3).dst
    /\ out = 2
    /\ Len(findContours(threshold(blurred, NotebookThresh, NotebookMaxval))) = 1
    /\ findContours(adaptive_thresh) # contours

(***************************************************************************)
(* Invocations of the pipeline.                                            *)
(***************************************************************************)
\* what an invocation was given and what it returned
Given(r) == <<r.img, r.ksize, r.thresh, r.min_area>>
Returned(r) == [count |-> r.count, blobs |-> r.blobs, areas |-> r.areas]

\* C12: two invocations given the same array and the same arguments return the
\* same count, the same blobs in the same order and the same areas, whatever
\* other invocations ran in the kernel before or between them.
C12_Determinism ==
    \A i, j \in 1..Invocations :
        (inv[i].returned /\ inv[j].returned /\ Given(inv[i]) = Given(inv[j])) =>
            Returned(inv[i]) = Returned(inv[j])

\* three invocations have returned; the first and the third were given the
\* same 5x5 array and arguments, the second another array, and the result of
\* the second differs from theirs
C12_Witness ==
    /\ \A i \in 1..3 : inv[i].returned
    /\ Given(inv[1]) = <<Ring5("closed", "empty"), 1, 100, 0>>
    /\ Given(inv[3]) = Given(inv[1])
    /\ Given(inv[2]) = <<TwoDots, 3, NotebookThresh, 0>>
    /\ inv[1].count = 1
    /\ inv[1].areas = <<2 * 16>>
    /\ Returned(inv[3]) = Returned(inv[1])
    /\ Returned(inv[2]) # Returned(inv[1])

\* the result of the pipeline on one array with nothing else run: the four
\* stages composed
Alone(r) ==
    LET smoothed == GaussianBlur(r.img, r.ksize).dst
        mask == threshold(smoothed, r.thresh, NotebookMaxval)
        blobs == FilterByArea(findContours(mask), r.min_area)
    IN [count |-> Len(blobs), blobs |-> blobs,
        areas |-> [i \in 1..Len(blobs) |-> contourArea2(blobs[i])]]

\* C13 as stated: every invocation, its cells interleaved with those of another
\* invocation in any order, returns what it returns when run alone.
C13_Original ==
    \A i \in 1..Invocations : inv[i].returned => Returned(inv[i]) = Alone(inv[i])

\* C13 amended: an invocation whose cells ran with no cell of another
\* invocation between them returns what it returns when run alone, whatever
\* ran before it.  (The cells hand b, blurred, thresh, contours and
\* filtered_contours to one another through names of the one kernel, so an
\* invocation interleaved with another may read what the other wrote.)
C13_NotInterleaved ==
    \A i \in 1..Invocations :
        (inv[i].returned /\ inv[i].straight) => Returned(inv[i]) = Alone(inv[i])

\* two invocations on different arrays have returned; the first was left
\* between two of its cells and returned the other's result, the second ran
\* its cells back to back and returned its own
C13_Witness ==
    /\ inv[1].returned /\ inv[2].returned
    /\ inv[1].img # inv[2].img
    /\ ~inv[1].straight
    /\ Returned(inv[1]) # Alone(inv[1])
    /\ Returned(inv[1]) = Alone(inv[2])
    /\ inv[2].straight
    /\ Returned(inv[2]) = Alone(inv[2])

=============================================================================
